---------------------------- MODULE Spec2Model ----------------------------
(***************************************************************************)
(* The zettelkasten tree store of browsekasten: Folder / Zettel / File     *)
(* rows (zettelkasten/models.py), the request handlers that create,        *)
(* rename, move, delete and upload them (zettelkasten/views.py) and the    *)
(* root-folder signal (zettelkasten/signals.py).                           *)
(*                                                                         *)
(* Names, paths and contents are sequences of one-character strings, so    *)
(* that strip / split / replace / str(n) are computed, not assumed.        *)
(* Spec     : requests handled one at a time (each handler is one step).   *)
(* SpecConc : requests of several workers interleaved at the granularity   *)
(*            of the handlers' database queries.                           *)
(***************************************************************************)
EXTENDS Integers, Sequences, FiniteSets, TLC

\* ------------------------------------------------------------------ bounds
\* Rows ever inserted, over the three tables (primary keys are never reused).
MaxRows == 4
\* SpecConc: the workers that handle requests at the same time.
MaxProcs == 2

\* --------------------------------------------------------------- constants
\* SQL NULL of a nullable foreign key / a missing request parameter.
None == 0

Users == {"u1"}
ItemTypes == {"folder", "zettel", "file", "other"}
RealTypes == {"folder", "zettel", "file"}

VARIABLES
    users,          \* auth.User rows
    folders,        \* Folder rows  [id, name, parent, is_root, author]
    zettels,        \* Zettel rows  [id, name, folder, author, content]
    files,          \* File rows    [id, name, folder, author, blob]
    nextFolderId,   \* the tables' auto-increment counters
    nextZettelId,
    nextFileId,
    resp,           \* the response of the last request that finished
    procs           \* SpecConc: each worker's position and locals

vars == <<users, folders, zettels, files, nextFolderId, nextZettelId, nextFileId, resp, procs>>

\* ------------------------------------------------------------ text helpers
RootName == <<"r", "o", "o", "t">>
ZettelPrefix == <<"n", "e", "w", "-", "z", "e", "t", "t", "e", "l", "-">>
FolderPrefix == <<"n", "e", "w", "-", "f", "o", "l", "d", "e", "r", "-">>
DotMd == <<".", "m", "d">>
Digits == <<"0", "1", "2", "3", "4", "5", "6", "7", "8", "9">>

IsSpace(c) == c \in {" ", "\t", "\n"}

RECURSIVE LStrip(_)
LStrip(s) == IF s # <<>> /\ IsSpace(Head(s)) THEN LStrip(Tail(s)) ELSE s

RECURSIVE RStrip(_)
RStrip(s) == IF s # <<>> /\ IsSpace(s[Len(s)]) THEN RStrip(SubSeq(s, 1, Len(s) - 1)) ELSE s

\* str.strip()
Strip(s) == RStrip(LStrip(s))

\* str(n) of a non-negative integer
RECURSIVE IntToStr(_)
IntToStr(n) == IF n < 10 THEN <<Digits[n + 1]>> ELSE IntToStr(n \div 10) \o <<Digits[(n % 10) + 1]>>

\* "new-zettel-" + str(n)
DefaultName(prefix, n) == prefix \o IntToStr(n)

\* ------------------------------------------------------------- the database
Db == [folders |-> folders, zettels |-> zettels, files |-> files,
       nextFolderId |-> nextFolderId, nextZettelId |-> nextZettelId, nextFileId |-> nextFileId]

FolderRow(id, name, parent, is_root, author) ==
    [id |-> id, name |-> name, parent |-> parent, is_root |-> is_root, author |-> author]

ZettelRow(id, name, folder, author, content) ==
    [id |-> id, name |-> name, folder |-> folder, author |-> author, content |-> content]

FileRow(id, name, folder, author, blob) ==
    [id |-> id, name |-> name, folder |-> folder, author |-> author, blob |-> blob]

\* unique_together = ('author', 'name', 'parent'): SQL compares NULL parents as
\* distinct, so rows with parent NULL never conflict.
FolderConflict(fs, row) ==
    /\ row.parent # None
    /\ \E f \in fs : f.id # row.id /\ f.author = row.author /\ f.name = row.name /\ f.parent = row.parent

\* unique_together = ('author', 'folder', 'name') of Zettel and of File
ItemConflict(rows, row) ==
    /\ row.folder # None
    /\ \E r \in rows : r.id # row.id /\ r.author = row.author /\ r.name = row.name /\ r.folder = row.folder

\* The foreign key of a row points at a live folder (or is NULL).
FkOk(fs, fid) == fid = None \/ \E f \in fs : f.id = fid

\* Model.save() of a row with a primary key: UPDATE, or INSERT when no row has
\* that key; an IntegrityError leaves the table as it was.
SaveOk(rows, row) == {r \in rows : r.id # row.id} \cup {row}

\* A lookup by id alone, whoever the author is.
Lookup_AnyAuthor(rows, id, u) == {r \in rows : r.id = id}

\* get_object_or_404(model, id=id, author=user): the matching rows (0 or 1)
Lookup(rows, id, u) == {r \in rows : r.id = id /\ r.author = u}

TheOne(S) == CHOOSE x \in S : TRUE

\* A delete that stops at the rows it was given and collects nothing below.
Collect_Shallow(fs, S) == S

\* on_delete=CASCADE: the folders collected from a set of folder rows, following
\* children downwards until nothing new is found.
RECURSIVE Collect(_, _)
Collect(fs, S) ==
    LET kids == {f \in fs : \E p \in S : f.parent = p.id} \ S
    IN IF kids = {} THEN S ELSE Collect(fs, S \cup kids)

\* A delete of folders that leaves the zettels and files in them behind.
DeleteFolders_FoldersOnly(db, S) ==
    [db EXCEPT !.folders = {f \in db.folders : f.id \notin {g.id : g \in Collect(db.folders, S)}}]

\* QuerySet.delete() / Model.delete() of folder rows S, with its cascade to the
\* child folders, zettels and files.
DeleteFolders(db, S) ==
    LET gone == {f.id : f \in Collect(db.folders, S)}
    IN [db EXCEPT !.folders = {f \in db.folders : f.id \notin gone},
                  !.zettels = {z \in db.zettels : z.folder \notin gone},
                  !.files = {x \in db.files : x.folder \notin gone}]

\* ---------------------------------------------------------------- responses
\* What a response says: the success payload of its endpoint, or the error.
Resp(kind, code) == [kind |-> kind, code |-> code]

NoResp == Resp("none", 0)

\* ------------------------------------------------------------ Folder.get_user_root
\* A get_user_root that inserts a root whether or not the user has one.
GetUserRoot_AlwaysCreate(db, u) ==
    LET new == FolderRow(db.nextFolderId, RootName, None, TRUE, u)
    IN [db |-> [db EXCEPT !.folders = @ \cup {new}, !.nextFolderId = @ + 1],
        root |-> new, err |-> FALSE, created |-> TRUE]

\* get_or_create(author=user, is_root=True, defaults={name 'root', parent None}):
\* the row when there is one, a new row when there is none, and
\* MultipleObjectsReturned when there are several.
GetUserRoot(db, u) ==
    LET roots == {f \in db.folders : f.author = u /\ f.is_root}
        new == FolderRow(db.nextFolderId, RootName, None, TRUE, u)
    IN IF roots = {}
       THEN [db |-> [db EXCEPT !.folders = @ \cup {new}, !.nextFolderId = @ + 1],
             root |-> new, err |-> FALSE, created |-> TRUE]
       ELSE IF Cardinality(roots) = 1
       THEN [db |-> db, root |-> TheOne(roots), err |-> FALSE, created |-> FALSE]
       ELSE [db |-> db, root |-> TheOne(roots), err |-> TRUE, created |-> FALSE]

\* A target resolved by id alone: the folder of that id, whoever owns it.
ResolveTarget_AnyAuthor(db, u, fid) ==
    IF fid = None
    THEN LET g == GetUserRoot(db, u)
         IN [db |-> g.db, folder |-> g.root, err |-> IF g.err THEN "multiple" ELSE "none"]
    ELSE LET m == {f \in db.folders : f.id = fid}
         IN IF m = {} THEN [db |-> db, folder |-> FolderRow(None, <<>>, None, FALSE, u), err |-> "not_found"]
            ELSE [db |-> db, folder |-> TheOne(m), err |-> "none"]

\* The target folder of a create / upload request: the root when no folder id
\* is given, else get_object_or_404(Folder, id=folder_id, author=user).
ResolveTarget(db, u, fid) ==
    IF fid = None
    THEN LET g == GetUserRoot(db, u)
         IN [db |-> g.db, folder |-> g.root, err |-> IF g.err THEN "multiple" ELSE "none"]
    ELSE LET m == Lookup(db.folders, fid, u)
         IN IF m = {} THEN [db |-> db, folder |-> FolderRow(None, <<>>, None, FALSE, u), err |-> "not_found"]
            ELSE [db |-> db, folder |-> TheOne(m), err |-> "none"]

\* A name scan that counts the names in scope instead of probing them.
ScanName_Count(names, prefix, n) == Cardinality(names)

\* name = 0; while <name exists in scope>: name += 1
RECURSIVE ScanName(_, _, _)
ScanName(names, prefix, n) ==
    IF DefaultName(prefix, n) \in names THEN ScanName(names, prefix, n + 1) ELSE n

\* -------------------------------------------------------------- create_zettel
CreateZettelH(db, u, fid) ==
    LET t == ResolveTarget(db, u, fid)
        used == {z.name : z \in {z \in t.db.zettels : z.author = u /\ z.folder = t.folder.id}}
        name == DefaultName(ZettelPrefix, ScanName(used, ZettelPrefix, 0))
        row == ZettelRow(t.db.nextZettelId, name, t.folder.id, u, <<>>)
    IN IF t.err = "not_found" THEN [db |-> t.db, resp |-> Resp("not_found", 400)]
       ELSE IF t.err = "multiple" THEN [db |-> t.db, resp |-> Resp("error", 400)]
       ELSE IF ItemConflict(t.db.zettels, row) THEN [db |-> t.db, resp |-> Resp("conflict", 400)]
       ELSE [db |-> [t.db EXCEPT !.zettels = @ \cup {row}, !.nextZettelId = @ + 1],
             resp |-> Resp("created", 200)]

\* -------------------------------------------------------------- create_folder
CreateFolderH(db, u, fid) ==
    LET t == ResolveTarget(db, u, fid)
        used == {f.name : f \in {f \in t.db.folders : f.author = u /\ f.parent = t.folder.id}}
        name == DefaultName(FolderPrefix, ScanName(used, FolderPrefix, 0))
        row == FolderRow(t.db.nextFolderId, name, t.folder.id, FALSE, u)
    IN IF t.err = "not_found" THEN [db |-> t.db, resp |-> Resp("not_found", 400)]
       ELSE IF t.err = "multiple" THEN [db |-> t.db, resp |-> Resp("error", 400)]
       ELSE IF FolderConflict(t.db.folders, row) THEN [db |-> t.db, resp |-> Resp("conflict", 400)]
       ELSE [db |-> [t.db EXCEPT !.folders = @ \cup {row}, !.nextFolderId = @ + 1],
             resp |-> Resp("created", 200)]

\* ---------------------------------------------------------------- delete_item
\* The rows of the table model_map names for item_type.
Table(db, type) ==
    IF type = "folder" THEN db.folders ELSE IF type = "zettel" THEN db.zettels ELSE db.files

DeleteItemH(db, u, type, id) ==
    LET g == IF type = "folder" THEN GetUserRoot(db, u)
             ELSE [db |-> db, root |-> FolderRow(None, <<>>, None, FALSE, u), err |-> FALSE, created |-> FALSE]
        m == Lookup(Table(g.db, type), id, u)
    IN IF g.err THEN [db |-> db, resp |-> Resp("error", 500)]
       ELSE IF type = "folder" /\ id = g.root.id
       THEN [db |-> DeleteFolders(g.db, {f \in g.db.folders : f.author = u}),
             resp |-> Resp("deleted_root", 200)]
       ELSE IF type \notin {"folder", "zettel", "file"}
       THEN [db |-> g.db, resp |-> Resp("invalid_type", 400)]
       ELSE IF m = {} THEN [db |-> g.db, resp |-> Resp("not_found", 400)]
       ELSE IF type = "folder"
       THEN [db |-> DeleteFolders(g.db, m), resp |-> Resp("deleted", 200)]
       ELSE IF type = "zettel"
       THEN [db |-> [g.db EXCEPT !.zettels = @ \ m], resp |-> Resp("deleted", 200)]
       ELSE [db |-> [g.db EXCEPT !.files = @ \ m], resp |-> Resp("deleted", 200)]

\* ------------------------------------------------------------ update_item_name
\* A save() that no constraint ever stops.
SaveFails_Never(db, type, row) == FALSE

\* obj.save() of a row of the given table: the unique constraint and the
\* foreign key decide whether the row is written.
SaveFails(db, type, row) ==
    IF type = "folder" THEN FolderConflict(db.folders, row) \/ ~FkOk(db.folders, row.parent)
    ELSE IF type = "zettel" THEN ItemConflict(db.zettels, row) \/ ~FkOk(db.folders, row.folder)
    ELSE ItemConflict(db.files, row) \/ ~FkOk(db.folders, row.folder)

\* A save() of a folder row that also hands the folder's zettels to its parent.
SaveRow_Flatten(db, type, row) ==
    IF type = "folder"
    THEN [db EXCEPT !.folders = SaveOk(@, row),
                    !.zettels = {IF z.folder = row.id THEN [z EXCEPT !.folder = row.parent] ELSE z : z \in @}]
    ELSE IF type = "zettel" THEN [db EXCEPT !.zettels = SaveOk(@, row)]
    ELSE [db EXCEPT !.files = SaveOk(@, row)]

SaveRow(db, type, row) ==
    IF type = "folder" THEN [db EXCEPT !.folders = SaveOk(@, row)]
    ELSE IF type = "zettel" THEN [db EXCEPT !.zettels = SaveOk(@, row)]
    ELSE [db EXCEPT !.files = SaveOk(@, row)]

UpdateItemNameH(db, u, type, id, raw) ==
    LET new_name == Strip(raw)
        m == Lookup(Table(db, type), id, u)
        row == [TheOne(m) EXCEPT !.name = new_name]
    IN IF type \notin {"folder", "zettel", "file"}
       THEN [db |-> db, resp |-> Resp("invalid_type", 400)]
       ELSE IF new_name = <<>> THEN [db |-> db, resp |-> Resp("empty_name", 400)]
       ELSE IF m = {} THEN [db |-> db, resp |-> Resp("not_found", 400)]
       ELSE IF SaveFails(db, type, row) THEN [db |-> db, resp |-> Resp("conflict", 400)]
       ELSE [db |-> SaveRow(db, type, row), resp |-> Resp("renamed", 200)]

\* ------------------------------------------------------------------ move_item
\* current.parent: the parent id of the folder row with this id
ParentOf(fs, id) == (TheOne({f \in fs : f.id = id})).parent

\* An ancestor walk that looks at the target folder only.
OnAncestorChain_TargetOnly(fs, cur, objId) == cur = objId

\* current = target_folder; while current: if current.id == obj.id: reject;
\* current = current.parent
RECURSIVE OnAncestorChain(_, _, _)
OnAncestorChain(fs, cur, objId) ==
    IF cur = None THEN FALSE
    ELSE IF cur = objId THEN TRUE
    ELSE OnAncestorChain(fs, ParentOf(fs, cur), objId)

\* obj.parent = target (folder) / obj.folder = target (zettel, file)
Relinked(type, obj, target) ==
    IF type = "folder" THEN [obj EXCEPT !.parent = target] ELSE [obj EXCEPT !.folder = target]

\* A move_item without the ancestor check.
MoveRejected_Never(fs, type, objId, target) == FALSE

\* The ancestor check of a folder move.
MoveRejected(fs, type, objId, target) ==
    type = "folder" /\ OnAncestorChain(fs, target, objId)

MoveItemH(db, u, type, id, target) ==
    LET m == Lookup(Table(db, type), id, u)
        t == Lookup(db.folders, target, u)
        row == Relinked(type, TheOne(m), target)
    IN IF type \notin {"folder", "zettel", "file"}
       THEN [db |-> db, resp |-> Resp("invalid_type", 400)]
       ELSE IF target = None THEN [db |-> db, resp |-> Resp("missing_target", 400)]
       ELSE IF m = {} \/ t = {} THEN [db |-> db, resp |-> Resp("not_found", 400)]
       ELSE IF MoveRejected(db.folders, type, id, target)
       THEN [db |-> db, resp |-> Resp("cycle", 400)]
       ELSE IF SaveFails(db, type, row) THEN [db |-> db, resp |-> Resp("conflict", 400)]
       ELSE [db |-> SaveRow(db, type, row), resp |-> Resp("moved", 200)]

\* --------------------------------------------------------------------- upload
\* str.split('/') of s, with cur the segment being read
RECURSIVE SplitSlash(_, _, _)
SplitSlash(s, cur, acc) ==
    IF s = <<>> THEN Append(acc, cur)
    ELSE IF Head(s) = "/" THEN SplitSlash(Tail(s), <<>>, Append(acc, cur))
    ELSE SplitSlash(Tail(s), Append(cur, Head(s)), acc)

NonEmpty(p) == p # <<>>

\* [part for part in path.strip().split('/') if part]
PathParts(path) == SelectSeq(SplitSlash(Strip(path), <<>>, <<>>), NonEmpty)

\* "/".join(parts)
RECURSIVE JoinSlash(_)
JoinSlash(parts) ==
    IF parts = <<>> THEN <<>>
    ELSE IF Len(parts) = 1 THEN parts[1]
    ELSE parts[1] \o <<"/">> \o JoinSlash(Tail(parts))

\* sub is a prefix of s
StartsWith(s, sub) == Len(sub) <= Len(s) /\ SubSeq(s, 1, Len(sub)) = sub

\* sub in s
RECURSIVE Contains(_, _)
Contains(s, sub) ==
    IF Len(s) < Len(sub) THEN FALSE
    ELSE StartsWith(s, sub) \/ Contains(Tail(s), sub)

\* s.replace(sub, ""): every occurrence of sub removed, left to right
RECURSIVE RemoveAll(_, _)
RemoveAll(s, sub) ==
    IF s = <<>> THEN <<>>
    ELSE IF StartsWith(s, sub) THEN RemoveAll(SubSeq(s, Len(sub) + 1, Len(s)), sub)
    ELSE <<Head(s)>> \o RemoveAll(Tail(s), sub)

\* The characters of the ASCII bytes that uploads, zettel contents and the
\* export's placeholder text use.
AsciiChr ==
    LET bytes == <<32, 40, 41, 58, 69, 91, 93, 97, 99, 100, 101, 102, 103, 104, 105, 108, 110, 111, 114>>
        chars == <<" ", "(", ")", ":", "E", "[", "]", "a", "c", "d", "e", "f", "g", "h", "i", "l", "n", "o", "r">>
    IN [b \in {bytes[i] : i \in DOMAIN bytes} |-> chars[CHOOSE i \in DOMAIN bytes : bytes[i] = b]]

\* bytes.decode('utf-8') of ASCII bytes; any other byte offered is 0xFF, which
\* no UTF-8 text contains (UnicodeDecodeError).
DecodeFails(blob) == \E i \in 1 .. Len(blob) : blob[i] \notin DOMAIN AsciiChr

Decode(blob) == [i \in 1 .. Len(blob) |-> AsciiChr[blob[i]]]

\* The nested dictionary of build_file_tree, in insertion order: a sequence of
\* [key, val] entries whose val is a file leaf or a directory of entries.
DirNode(items) == [is_file |-> FALSE, name |-> <<>>, path |-> <<>>, file |-> <<>>, items |-> items]

LeafNode(name, path, file) == [is_file |-> TRUE, name |-> name, path |-> path, file |-> file, items |-> <<>>]

KeyIndex(d, key) ==
    IF \E i \in 1 .. Len(d) : d[i].key = key
    THEN CHOOSE i \in 1 .. Len(d) : d[i].key = key
    ELSE 0

\* node = tree; for part in parts[:-1]: node = node.setdefault(part, {});
\* node[filename] = leaf.  (No offered path goes through a name that an earlier
\* path of the batch used for a file.)
RECURSIVE TreeInsert(_, _, _)
TreeInsert(d, parts, leaf) ==
    LET key == Head(parts)
        idx == KeyIndex(d, key)
        d1 == IF idx = 0 THEN Append(d, [key |-> key, val |-> DirNode(<<>>)]) ELSE d
        i == IF idx = 0 THEN Len(d1) ELSE idx
    IN IF Len(parts) = 1
       THEN IF idx = 0 THEN Append(d, [key |-> key, val |-> leaf])
            ELSE [d EXCEPT ![idx] = [key |-> key, val |-> leaf]]
       ELSE IF d1[i].val.is_file THEN d1
       ELSE [d1 EXCEPT ![i] = [key |-> key,
                                val |-> DirNode(TreeInsert(d1[i].val.items, Tail(parts), leaf))]]

\* The loop of build_file_tree over zip(paths, files), from pair k on.
RECURSIVE BuildEntries(_, _, _, _)
BuildEntries(paths, blobs, k, tree) ==
    IF k > Len(paths) \/ k > Len(blobs) THEN tree
    ELSE LET parts == PathParts(paths[k])
         IN IF parts = <<>> THEN BuildEntries(paths, blobs, k + 1, tree)
            ELSE BuildEntries(paths, blobs, k + 1,
                     TreeInsert(tree, parts, LeafNode(parts[Len(parts)], JoinSlash(parts), blobs[k])))

\* build_file_tree: the value under the single top-level key "root", and None
\* (the function ends without a return) for every other tree.
BuildFileTree(paths, blobs) ==
    LET tree == BuildEntries(paths, blobs, 1, <<>>)
    IN IF Len(tree) = 1 /\ tree[1].key = RootName
       THEN [none |-> FALSE, val |-> tree[1].val]
       ELSE [none |-> TRUE, val |-> DirNode(<<>>)]

\* create_files: a Zettel when ".md" occurs in the file name, else a File
CreateFiles(db, u, leaf, node) ==
    LET zrow == ZettelRow(db.nextZettelId, RemoveAll(leaf.name, DotMd), node, u, Decode(leaf.file))
        frow == FileRow(db.nextFileId, leaf.name, node, u, leaf.file)
    IN IF Contains(leaf.name, DotMd)
       THEN IF DecodeFails(leaf.file) THEN [db |-> db, items |-> <<>>, err |-> "error"]
            ELSE IF SaveFails(db, "zettel", zrow) THEN [db |-> db, items |-> <<>>, err |-> "conflict"]
            ELSE [db |-> [db EXCEPT !.zettels = @ \cup {zrow}, !.nextZettelId = @ + 1],
                  items |-> <<[type |-> "zettel", id |-> zrow.id, name |-> zrow.name,
                               path |-> leaf.path, folder_id |-> node]>>,
                  err |-> "none"]
       ELSE IF SaveFails(db, "file", frow) THEN [db |-> db, items |-> <<>>, err |-> "conflict"]
            ELSE [db |-> [db EXCEPT !.files = @ \cup {frow}, !.nextFileId = @ + 1],
                  items |-> <<[type |-> "file", id |-> frow.id, name |-> frow.name,
                               path |-> leaf.path, folder_id |-> node]>>,
                  err |-> "none"]

\* create_file_tree over the entries d of a directory, into folder node: a
\* directory entry reuses or creates the folder of its name and recurses, a
\* leaf entry goes to create_files; the first exception ends the walk and
\* keeps what was created before it.
RECURSIVE CreateFileTree(_, _, _, _)
CreateFileTree(db, u, d, node) ==
    IF d = <<>> THEN [db |-> db, items |-> <<>>, err |-> "none"]
    ELSE LET e == Head(d)
             existing == {f \in db.folders : f.name = e.key /\ f.parent = node /\ f.author = u}
             new == FolderRow(db.nextFolderId, e.key, node, FALSE, u)
             first == IF e.val.is_file THEN CreateFiles(db, u, e.val, node)
                      ELSE IF existing # {}
                      THEN CreateFileTree(db, u, e.val.items, (TheOne(existing)).id)
                      ELSE IF SaveFails(db, "folder", new)
                      THEN [db |-> db, items |-> <<>>, err |-> "conflict"]
                      ELSE CreateFileTree([db EXCEPT !.folders = @ \cup {new}, !.nextFolderId = @ + 1],
                                          u, e.val.items, new.id)
             rest == CreateFileTree(first.db, u, Tail(d), node)
         IN IF first.err # "none" THEN first
            ELSE [db |-> rest.db, items |-> first.items \o rest.items, err |-> rest.err]

\* upload: folder_id (None: the root), the uploaded blobs and their paths
UploadH(db, u, fid, paths, blobs) ==
    LET g == IF fid = None THEN GetUserRoot(db, u)
             ELSE [db |-> db, root |-> FolderRow(None, <<>>, None, FALSE, u), err |-> FALSE, created |-> FALSE]
        m == Lookup(db.folders, fid, u)
        target == IF fid = None THEN g.root.id ELSE fid
        tree == BuildFileTree(paths, blobs)
        \* a leaf returned as the tree has only string values: nothing is created
        made == IF tree.val.is_file THEN [db |-> g.db, items |-> <<>>, err |-> "none"]
                ELSE CreateFileTree(g.db, u, tree.val.items, target)
    IN IF g.err THEN [db |-> db, resp |-> Resp("error", 400)]
       ELSE IF fid # None /\ m = {} THEN [db |-> db, resp |-> Resp("not_found", 404)]
       ELSE IF blobs = <<>> THEN [db |-> g.db, resp |-> Resp("no_files", 400)]
       ELSE IF Len(blobs) # Len(paths) THEN [db |-> g.db, resp |-> Resp("count_mismatch", 400)]
       ELSE IF tree.none THEN [db |-> g.db, resp |-> Resp("error", 400)]
       ELSE IF made.err # "none" THEN [db |-> made.db, resp |-> Resp(made.err, 400)]
       ELSE [db |-> made.db, resp |-> Resp("uploaded", 200)]

\* ------------------------------------------------------------ reading the tree
\* A queryset of rows under Meta.ordering = ['-created']: newest row first.
RECURSIVE ByNewest(_)
ByNewest(S) ==
    IF S = {} THEN <<>>
    ELSE LET top == CHOOSE r \in S : \A q \in S : q.id <= r.id
         IN <<top>> \o ByNewest(S \ {top})

\* folder.children.all() / folder.zettels.all() / folder.files.all()
ChildrenOf(db, fid) == ByNewest({f \in db.folders : f.parent = fid})
ZettelsOf(db, fid) == ByNewest({z \in db.zettels : z.folder = fid})
FilesOf(db, fid) == ByNewest({x \in db.files : x.folder = fid})

\* get_folder_tree(folder)
RECURSIVE GetFolderTree(_, _)
GetFolderTree(db, folder) ==
    LET kids == ChildrenOf(db, folder.id)
    IN [name |-> folder.name, id |-> folder.id,
        children |-> [i \in 1 .. Len(kids) |-> GetFolderTree(db, kids[i])],
        zettels |-> ZettelsOf(db, folder.id),
        files |-> FilesOf(db, folder.id)]

\* Folder.get_path: the names from the top down to the folder, each followed
\* by "/"; the walk follows parent links until there is none.
RECURSIVE GetPath(_, _)
GetPath(fs, fid) ==
    IF fid = None THEN <<>>
    ELSE LET f == TheOne({g \in fs : g.id = fid})
         IN GetPath(fs, f.parent) \o f.name \o <<"/">>

\* ---------------------------------------------------------------- get_zettel
GetZettelH(db, u, id) ==
    LET m == Lookup(db.zettels, id, u)
    IN IF m = {} THEN [db |-> db, resp |-> Resp("not_found", 404), path |-> <<>>]
       ELSE [db |-> db, resp |-> Resp("zettel", 200),
             path |-> GetPath(db.folders, (TheOne(m)).folder) \o (TheOne(m)).name]

\* ------------------------------------------------------------- update_zettel
UpdateZettelH(db, u, id, content) ==
    LET m == Lookup(db.zettels, id, u)
        row == [TheOne(m) EXCEPT !.content = content]
    IN IF m = {} THEN [db |-> db, resp |-> Resp("not_found", 404)]
       ELSE IF content = <<>> THEN [db |-> db, resp |-> Resp("no_content", 400)]
       ELSE IF SaveFails(db, "zettel", row) THEN [db |-> db, resp |-> Resp("error", 500)]
       ELSE [db |-> SaveRow(db, "zettel", row), resp |-> Resp("updated", 200)]

\* ------------------------------------------------------------------ download
\* str.encode('utf-8') of ASCII text
AsciiOrd(c) == CHOOSE b \in DOMAIN AsciiChr : AsciiChr[b] = c

Encode(text) == [i \in 1 .. Len(text) |-> AsciiOrd(text[i])]

ZipEntry(path, data) == [path |-> path, data |-> data]

\* str(e) of the exception that file_obj.file.seek / read raises
ReadErrorText == <<"e">>

\* f"Error reading file: {str(e)}"
PlaceholderText ==
    <<"E", "r", "r", "o", "r", " ", "r", "e", "a", "d", "i", "n", "g", " ", "f", "i", "l", "e", ":", " ">>
        \o ReadErrorText

\* An export that leaves out a file whose blob cannot be read.
FileEntries_SkipUnreadable(x, base_path, unreadable) ==
    IF x.id \in unreadable THEN <<>> ELSE <<ZipEntry(base_path \o x.name, x.blob)>>

\* The body of the loop over folder.files: the entry written for file x, with
\* unreadable the files whose seek / read raises. The blob read back is the
\* blob stored; the except branch writes the placeholder at the same path.
FileEntries(x, base_path, unreadable) ==
    IF x.id \in unreadable
    THEN <<ZipEntry(base_path \o x.name, Encode(PlaceholderText))>>
    ELSE <<ZipEntry(base_path \o x.name, x.blob)>>

\* The loop over folder.files, from the k-th file on
RECURSIVE AddFiles(_, _, _, _)
AddFiles(xs, k, base_path, unreadable) ==
    IF k > Len(xs) THEN <<>>
    ELSE FileEntries(xs[k], base_path, unreadable) \o AddFiles(xs, k + 1, base_path, unreadable)

\* An export that does not descend into sub-folders.
AddSubfolders_None(db, kids, k, base_path, unreadable) == <<>>

\* add_folder_to_zip over the sub-folders kids, from the k-th on
RECURSIVE AddFolderToZip(_, _, _, _)
RECURSIVE AddSubfolders(_, _, _, _, _)
AddSubfolders(db, kids, k, base_path, unreadable) ==
    IF k > Len(kids) THEN <<>>
    ELSE AddFolderToZip(db, kids[k].id, base_path \o kids[k].name \o <<"/">>, unreadable)
             \o AddSubfolders(db, kids, k + 1, base_path, unreadable)

\* add_folder_to_zip(zip_file, folder, base_path): the entries written, in
\* order: the folder's zettels, its files, then its sub-folders.
AddFolderToZip(db, fid, base_path, unreadable) ==
    LET zs == ZettelsOf(db, fid)
    IN [i \in 1 .. Len(zs) |-> ZipEntry(base_path \o zs[i].name \o DotMd, Encode(zs[i].content))]
       \o AddFiles(FilesOf(db, fid), 1, base_path, unreadable)
       \o AddSubfolders(db, ChildrenOf(db, fid), 1, base_path, unreadable)

\* download of a folder, with unreadable the stored files whose blob cannot be
\* read while the archive is written
DownloadH(db, u, fid, unreadable) ==
    IF Lookup(db.folders, fid, u) = {}
    THEN [db |-> db, resp |-> Resp("not_found", 404), zip |-> <<>>]
    ELSE [db |-> db, resp |-> Resp("archive", 200), zip |-> AddFolderToZip(db, fid, <<>>, unreadable)]

\* ------------------------------------------------------------- graph network
\* The least index from i on at which sub starts in s, and 0 when there is none.
RECURSIVE IndexFrom(_, _, _)
IndexFrom(s, sub, i) ==
    IF i + Len(sub) - 1 > Len(s) THEN 0
    ELSE IF SubSeq(s, i, i + Len(sub) - 1) = sub THEN i
    ELSE IndexFrom(s, sub, i + 1)

\* re.findall(r'\[.*?\]\(.*?\)', s) from index i on: a match starts at a "[",
\* runs to the first "](" after it and ends at the first ")" after that; the
\* search goes on behind the match.
RECURSIVE FindAll(_, _)
FindAll(s, i) ==
    IF i > Len(s) THEN <<>>
    ELSE LET j == IndexFrom(s, <<"]", "(">>, i + 1)
             k == IF j = 0 THEN 0 ELSE IndexFrom(s, <<")">>, j + 2)
         IN IF s[i] = "[" /\ j # 0 /\ k # 0
            THEN <<SubSeq(s, i, k)>> \o FindAll(s, k + 1)
            ELSE FindAll(s, i + 1)

\* The text of s before the first c (all of s when it has none).
UpTo(s, c) ==
    LET i == IndexFrom(s, <<c>>, 1)
    IN IF i = 0 THEN s ELSE SubSeq(s, 1, i - 1)

\* match.split("(")[1].split(")")[0]
ThatId(match) ==
    LET i == IndexFrom(match, <<"(">>, 1)
    IN UpTo(UpTo(SubSeq(match, i + 1, Len(match)), "("), ")")

\* The edges network adds for the matches ms of zettel z, from the k-th on.
RECURSIVE EdgesOf(_, _, _, _)
EdgesOf(db, z, ms, k) ==
    IF k > Len(ms) THEN <<>>
    ELSE LET that_id == ThatId(ms[k])
             edge == IF \E y \in db.zettels : y.name = that_id
                     THEN <<[source |-> z.name, target |-> that_id]>> ELSE <<>>
         IN edge \o EdgesOf(db, z, ms, k + 1)

RECURSIVE AllEdges(_, _, _)
AllEdges(db, zs, k) ==
    IF k > Len(zs) THEN <<>>
    ELSE EdgesOf(db, zs[k], FindAll(zs[k].content, 1), 1) \o AllEdges(db, zs, k + 1)

\* network: a node for every zettel of the user, then the edges
NetworkH(db, u) ==
    LET zs == ByNewest({z \in db.zettels : z.author = u})
    IN [db |-> db, resp |-> Resp("graph", 200),
        nodes |-> [i \in 1 .. Len(zs) |-> [id |-> zs[i].name, label |-> zs[i].name]],
        edges |-> AllEdges(db, zs, 1)]

\* ------------------------------------------------------------------ stepping
\* The bound on the rows inserted so far.
InBounds(db) == (db.nextFolderId - 1) + (db.nextZettelId - 1) + (db.nextFileId - 1) <= MaxRows

\* A handler's outcome written back: the database and the response.
Commit(out) ==
    /\ InBounds(out.db)
    /\ folders' = out.db.folders
    /\ zettels' = out.db.zettels
    /\ files' = out.db.files
    /\ nextFolderId' = out.db.nextFolderId
    /\ nextZettelId' = out.db.nextZettelId
    /\ nextFileId' = out.db.nextFileId
    /\ resp' = out.resp

Init ==
    /\ users = {}
    /\ folders = {}
    /\ zettels = {}
    /\ files = {}
    /\ nextFolderId = 1
    /\ nextZettelId = 1
    /\ nextFileId = 1
    /\ resp = NoResp
    /\ procs = <<>>

\* register: a new User row; the post_save signal creates its root folder.
CreateUserH(db, u) ==
    LET new == FolderRow(db.nextFolderId, RootName, None, TRUE, u)
    IN [db |-> [db EXCEPT !.folders = @ \cup {new}, !.nextFolderId = @ + 1],
        resp |-> Resp("registered", 200)]

CreateUser(u) ==
    /\ u \notin users
    /\ users' = users \cup {u}
    /\ Commit(CreateUserH(Db, u))
    /\ UNCHANGED procs

\* editor: get_user_root and the tree below it
EditorH(db, u) ==
    LET g == GetUserRoot(db, u)
    IN IF g.err THEN [db |-> g.db, resp |-> Resp("error", 500)]
       ELSE [db |-> g.db, resp |-> Resp("page", 200)]

Editor(u) ==
    /\ u \in users
    /\ Commit(EditorH(Db, u))
    /\ UNCHANGED <<users, procs>>

CreateZettel(u, fid) ==
    /\ u \in users
    /\ Commit(CreateZettelH(Db, u, fid))
    /\ UNCHANGED <<users, procs>>

CreateFolder(u, fid) ==
    /\ u \in users
    /\ Commit(CreateFolderH(Db, u, fid))
    /\ UNCHANGED <<users, procs>>

DeleteItem(u, type, id) ==
    /\ u \in users
    /\ Commit(DeleteItemH(Db, u, type, id))
    /\ UNCHANGED <<users, procs>>

UpdateItemName(u, type, id, raw) ==
    /\ u \in users
    /\ Commit(UpdateItemNameH(Db, u, type, id, raw))
    /\ UNCHANGED <<users, procs>>

MoveItem(u, type, id, target) ==
    /\ u \in users
    /\ Commit(MoveItemH(Db, u, type, id, target))
    /\ UNCHANGED <<users, procs>>

Upload(u, fid, batch) ==
    /\ u \in users
    /\ Commit(UploadH(Db, u, fid, batch.paths, batch.blobs))
    /\ UNCHANGED <<users, procs>>

\* The upload batches offered, each under the wrapper folder "root" or
\* without it: a folder with a note, a single file, a file in a folder.
UploadInputs ==
    { [paths |-> << <<"r", "o", "o", "t", "/", "d", "/", "c", ".", "m", "d">> >>, blobs |-> << <<104>> >>],
      [paths |-> << <<"r", "o", "o", "t", "/", "c">> >>, blobs |-> << <<104>> >>],
      [paths |-> << <<"d", "/", "c">> >>, blobs |-> << <<104>> >>] }

\* The default-name prefix of a kind of item.
PrefixOf(type) == IF type = "folder" THEN FolderPrefix ELSE ZettelPrefix

\* The new_name values offered to rename: a name padded with whitespace, a
\* whitespace-only name, the empty name, and a default name of the item's kind.
RenameInputs(type) == { <<" ", "c", " ">>, <<" ">>, <<>>, DefaultName(PrefixOf(type), 1) }

Min(a, b) == IF a < b THEN a ELSE b

\* The ids a request may name: every id its table has handed out, and the id
\* it hands out next (no row has it yet).
FolderIds == 1 .. Min(nextFolderId, MaxRows)
ZettelIds == 1 .. Min(nextZettelId, MaxRows)
FileIds == 1 .. Min(nextFileId, MaxRows)
IdsOf(type) ==
    IF type = "folder" THEN FolderIds ELSE IF type = "zettel" THEN ZettelIds
    ELSE IF type = "file" THEN FileIds ELSE {1}

Next ==
    \/ \E u \in Users : CreateUser(u)
    \/ \E u \in Users : Editor(u)
    \/ \E u \in Users, fid \in FolderIds \cup {None} : CreateZettel(u, fid)
    \/ \E u \in Users, fid \in FolderIds \cup {None} : CreateFolder(u, fid)
    \/ \E u \in Users, type \in ItemTypes : \E id \in IdsOf(type) : DeleteItem(u, type, id)
    \/ \E u \in Users, type \in ItemTypes : \E id \in IdsOf(type), raw \in RenameInputs(type) :
          UpdateItemName(u, type, id, raw)
    \/ \E u \in Users, type \in ItemTypes : \E id \in IdsOf(type), target \in FolderIds \cup {None} :
          MoveItem(u, type, id, target)
    \/ \E u \in Users, fid \in FolderIds \cup {None}, batch \in UploadInputs : Upload(u, fid, batch)

Spec == Init /\ [][Next]_vars

\* ======================================================= two users, all requests
\* The requests of two users handled one at a time, the reading requests and
\* update_zettel included.
UsersIso == {"u1", "u2"}

GetZettel(u, id) ==
    /\ u \in users
    /\ Commit(GetZettelH(Db, u, id))
    /\ UNCHANGED <<users, procs>>

UpdateZettel(u, id, content) ==
    /\ u \in users
    /\ Commit(UpdateZettelH(Db, u, id, content))
    /\ UNCHANGED <<users, procs>>

Download(u, fid, unreadable) ==
    /\ u \in users
    /\ Commit(DownloadH(Db, u, fid, unreadable))
    /\ UNCHANGED <<users, procs>>

Network(u) ==
    /\ u \in users
    /\ Commit(NetworkH(Db, u))
    /\ UNCHANGED <<users, procs>>

\* The contents offered to update_zettel: a link to the name "c", and none.
ContentInputs == { <<"[", "]", "(", "c", ")">>, <<>> }

\* The requests offered with two users: one new name, one upload batch.
RenameIso == { <<"c">> }
UploadIso == { [paths |-> << <<"r", "o", "o", "t", "/", "c">> >>, blobs |-> << <<104>> >>] }

NextIso ==
    \/ \E u \in UsersIso : CreateUser(u)
    \/ \E u \in UsersIso : Editor(u)
    \/ \E u \in UsersIso, fid \in FolderIds \cup {None} : CreateZettel(u, fid)
    \/ \E u \in UsersIso, fid \in FolderIds \cup {None} : CreateFolder(u, fid)
    \/ \E u \in UsersIso, type \in RealTypes : \E id \in IdsOf(type) : DeleteItem(u, type, id)
    \/ \E u \in UsersIso, type \in RealTypes : \E id \in IdsOf(type), raw \in RenameIso :
          UpdateItemName(u, type, id, raw)
    \/ \E u \in UsersIso, type \in RealTypes : \E id \in IdsOf(type), target \in FolderIds :
          MoveItem(u, type, id, target)
    \/ \E u \in UsersIso, fid \in FolderIds \cup {None}, batch \in UploadIso : Upload(u, fid, batch)
    \/ \E u \in UsersIso, id \in ZettelIds : GetZettel(u, id)
    \/ \E u \in UsersIso, id \in ZettelIds, content \in ContentInputs : UpdateZettel(u, id, content)
    \/ \E u \in UsersIso, fid \in FolderIds : \E unreadable \in SUBSET {x.id : x \in files} :
          Download(u, fid, unreadable)
    \/ \E u \in UsersIso : Network(u)

SpecIso == Init /\ [][NextIso]_vars

\* ================================================== one user, names with ".md"
\* The requests of one user handled one at a time, with new names that end in
\* the extension of an exported zettel, and the export.
NameInputs == { <<"c">>, <<"c", ".", "m", "d">> }

NextNames ==
    \/ \E u \in Users : CreateUser(u)
    \/ \E u \in Users, fid \in FolderIds \cup {None} : CreateZettel(u, fid)
    \/ \E u \in Users, fid \in FolderIds \cup {None} : CreateFolder(u, fid)
    \/ \E u \in Users, type \in RealTypes : \E id \in IdsOf(type) : DeleteItem(u, type, id)
    \/ \E u \in Users, type \in RealTypes : \E id \in IdsOf(type), raw \in NameInputs :
          UpdateItemName(u, type, id, raw)
    \/ \E u \in Users, type \in RealTypes : \E id \in IdsOf(type), target \in FolderIds :
          MoveItem(u, type, id, target)
    \/ \E u \in Users, fid \in FolderIds \cup {None}, batch \in UploadIso : Upload(u, fid, batch)
    \/ \E u \in Users, fid \in FolderIds : \E unreadable \in SUBSET {x.id : x \in files} :
          Download(u, fid, unreadable)

SpecNames == Init /\ [][NextNames]_vars

\* ================================================ requests handled concurrently
\* Each worker runs one request at a time; a step of a worker is one database
\* query of its handler (or the end of the request), so the queries of two
\* requests interleave in every order.  Workers handle create_zettel,
\* create_folder, and delete_item / move_item of folders.
Procs == 1 .. MaxProcs

NoRow == FolderRow(None, <<>>, None, FALSE, "")

\* A worker's locals: the handler and its position, the acting user, the id
\* arguments, the scan counter, the Folder objects loaded so far, and (once
\* the request is done) what it answered.
Local(pc, op, u, id, fid, n, obj, cur) ==
    [pc |-> pc, op |-> op, u |-> u, id |-> id, fid |-> fid, n |-> n, obj |-> obj, cur |-> cur, res |-> ""]

Idle == Local("idle", "none", "", None, None, 0, NoRow, NoRow)

\* The stores the concurrent requests start from, each one reached by requests
\* handled one at a time: after register; after register and two
\* create_folder; after register and delete_item of the root.
ConcStarts ==
    { [folders |-> {FolderRow(1, RootName, None, TRUE, "u1")}, nextFolderId |-> 2],
      [folders |-> {FolderRow(1, RootName, None, TRUE, "u1"),
                    FolderRow(2, DefaultName(FolderPrefix, 0), 1, FALSE, "u1"),
                    FolderRow(3, DefaultName(FolderPrefix, 1), 1, FALSE, "u1")},
       nextFolderId |-> 4],
      [folders |-> {}, nextFolderId |-> 2] }

InitConc ==
    /\ users = {"u1"}
    /\ \E s \in ConcStarts : folders = s.folders /\ nextFolderId = s.nextFolderId
    /\ zettels = {}
    /\ files = {}
    /\ nextZettelId = 1
    /\ nextFileId = 1
    /\ resp = NoResp
    /\ procs = [p \in Procs |-> Idle]

\* The request of worker p, of handler op, ends with response r.
Finish(p, op, r) ==
    /\ resp' = r
    /\ procs' = [procs EXCEPT ![p] = [Idle EXCEPT !.pc = "done", !.op = op, !.res = r.kind]]

Goto(p, l) == procs' = [procs EXCEPT ![p] = l]

DbUnchanged == UNCHANGED <<users, folders, zettels, files, nextFolderId, nextZettelId, nextFileId>>

\* Where a handler goes on once get_user_root has returned the folder root.
AfterRoot(l, root) ==
    IF l.op = "delete_item"
    THEN IF l.id = root THEN [l EXCEPT !.pc = "wipe"] ELSE [l EXCEPT !.pc = "del_get"]
    ELSE [l EXCEPT !.pc = "scan", !.fid = root, !.n = 0]

\* get_or_create, the get: the row, DoesNotExist (the create follows), or
\* MultipleObjectsReturned (400 inside the handlers' try, 500 outside).
RootGet(p, l) ==
    LET roots == {f \in folders : f.author = l.u /\ f.is_root}
    IN /\ DbUnchanged
       /\ IF roots = {} THEN Goto(p, [l EXCEPT !.pc = "root_create"]) /\ UNCHANGED resp
          ELSE IF Cardinality(roots) = 1 THEN Goto(p, AfterRoot(l, (TheOne(roots)).id)) /\ UNCHANGED resp
          ELSE Finish(p, l.op, Resp("error", IF l.op = "delete_item" THEN 500 ELSE 400))

\* get_or_create, the create: no constraint stops a second root.
RootCreate(p) ==
    LET l == procs[p]
        new == FolderRow(nextFolderId, RootName, None, TRUE, l.u)
    IN /\ l.pc = "root_create"
       /\ InBounds([Db EXCEPT !.nextFolderId = @ + 1])
       /\ folders' = folders \cup {new}
       /\ nextFolderId' = nextFolderId + 1
       /\ Goto(p, AfterRoot(l, new.id))
       /\ UNCHANGED <<users, zettels, files, nextZettelId, nextFileId, resp>>

\* create_zettel / create_folder: the request arrives and resolves its target.
CreateStart(p, u, op, fid) ==
    LET l == Local("start", op, u, None, fid, 0, NoRow, NoRow)
    IN /\ procs[p].pc = "idle"
       /\ u \in users
       /\ IF fid = None THEN RootGet(p, l)
          ELSE /\ DbUnchanged
               /\ IF Lookup(folders, fid, u) = {} THEN Finish(p, op, Resp("not_found", 400))
                  ELSE Goto(p, [l EXCEPT !.pc = "scan"]) /\ UNCHANGED resp

\* One turn of the name scan: the exists() query for "<prefix>-<n>".
Scan(p) ==
    LET l == procs[p]
        name == DefaultName(IF l.op = "create_zettel" THEN ZettelPrefix ELSE FolderPrefix, l.n)
        exists == IF l.op = "create_zettel"
                  THEN \E z \in zettels : z.name = name /\ z.author = l.u /\ z.folder = l.fid
                  ELSE \E f \in folders : f.name = name /\ f.author = l.u /\ f.parent = l.fid
    IN /\ l.pc = "scan"
       /\ DbUnchanged /\ UNCHANGED resp
       /\ IF exists THEN Goto(p, [l EXCEPT !.n = @ + 1]) ELSE Goto(p, [l EXCEPT !.pc = "insert"])

\* The save() of the new row under the name the scan ended on.
Insert(p) ==
    LET l == procs[p]
        zrow == ZettelRow(nextZettelId, DefaultName(ZettelPrefix, l.n), l.fid, l.u, <<>>)
        frow == FolderRow(nextFolderId, DefaultName(FolderPrefix, l.n), l.fid, FALSE, l.u)
    IN /\ l.pc = "insert"
       /\ UNCHANGED <<users, files, nextFileId>>
       /\ IF ~FkOk(folders, l.fid)
          THEN Finish(p, l.op, Resp("error", 400)) /\ UNCHANGED <<folders, zettels, nextFolderId, nextZettelId>>
          ELSE IF l.op = "create_zettel"
          THEN IF ItemConflict(zettels, zrow)
               THEN Finish(p, l.op, Resp("conflict", 400)) /\ UNCHANGED <<folders, zettels, nextFolderId, nextZettelId>>
               ELSE /\ InBounds([Db EXCEPT !.nextZettelId = @ + 1])
                    /\ zettels' = zettels \cup {zrow}
                    /\ nextZettelId' = nextZettelId + 1
                    /\ Finish(p, l.op, Resp("created", 200))
                    /\ UNCHANGED <<folders, nextFolderId>>
          ELSE IF FolderConflict(folders, frow)
               THEN Finish(p, l.op, Resp("conflict", 400)) /\ UNCHANGED <<folders, zettels, nextFolderId, nextZettelId>>
               ELSE /\ InBounds([Db EXCEPT !.nextFolderId = @ + 1])
                    /\ folders' = folders \cup {frow}
                    /\ nextFolderId' = nextFolderId + 1
                    /\ Finish(p, l.op, Resp("created", 200))
                    /\ UNCHANGED <<zettels, nextZettelId>>

\* delete_item of a folder: the request arrives and asks for the user's root.
DeleteStart(p, u, id) ==
    /\ procs[p].pc = "idle"
    /\ u \in users
    /\ RootGet(p, Local("start", "delete_item", u, id, None, 0, NoRow, NoRow))

\* Folder.objects.filter(author=user).delete()
Wipe(p) ==
    LET l == procs[p]
        out == DeleteFolders(Db, {f \in folders : f.author = l.u})
    IN /\ l.pc = "wipe"
       /\ folders' = out.folders /\ zettels' = out.zettels /\ files' = out.files
       /\ Finish(p, l.op, Resp("deleted_root", 200))
       /\ UNCHANGED <<users, nextFolderId, nextZettelId, nextFileId>>

\* obj = get_object_or_404(Folder, id=item_id, author=user)
DeleteGet(p) ==
    LET l == procs[p]
        m == Lookup(folders, l.id, l.u)
    IN /\ l.pc = "del_get"
       /\ DbUnchanged
       /\ IF m = {} THEN Finish(p, l.op, Resp("not_found", 400))
          ELSE Goto(p, [l EXCEPT !.pc = "del_exec", !.obj = TheOne(m)]) /\ UNCHANGED resp

\* obj.delete(): the row of that key and everything below it
DeleteExec(p) ==
    LET l == procs[p]
        out == DeleteFolders(Db, {l.obj})
    IN /\ l.pc = "del_exec"
       /\ folders' = out.folders /\ zettels' = out.zettels /\ files' = out.files
       /\ Finish(p, l.op, Resp("deleted", 200))
       /\ UNCHANGED <<users, nextFolderId, nextZettelId, nextFileId>>

\* move_item of a folder: the request arrives and loads the folder to move.
MoveStart(p, u, id, target) ==
    LET m == Lookup(folders, id, u)
    IN /\ procs[p].pc = "idle"
       /\ u \in users
       /\ DbUnchanged
       /\ IF target = None THEN Finish(p, "move_item", Resp("missing_target", 400))
          ELSE IF m = {} THEN Finish(p, "move_item", Resp("not_found", 400))
          ELSE /\ Goto(p, Local("mv_target", "move_item", u, id, target, 0, TheOne(m), NoRow))
               /\ UNCHANGED resp

\* target_folder = get_object_or_404(Folder, id=target_folder_id, author=user)
MoveTarget(p) ==
    LET l == procs[p]
        t == Lookup(folders, l.fid, l.u)
    IN /\ l.pc = "mv_target"
       /\ DbUnchanged
       /\ IF t = {} THEN Finish(p, l.op, Resp("not_found", 400))
          ELSE Goto(p, [l EXCEPT !.pc = "mv_walk", !.cur = TheOne(t)]) /\ UNCHANGED resp

\* One turn of the ancestor walk: compare current with the folder to move,
\* then load current.parent (DoesNotExist when that row is gone).
MoveWalk(p) ==
    LET l == procs[p]
        up == {f \in folders : f.id = l.cur.parent}
    IN /\ l.pc = "mv_walk"
       /\ DbUnchanged
       /\ IF l.cur.id = l.obj.id THEN Finish(p, l.op, Resp("cycle", 400))
          ELSE IF l.cur.parent = None THEN Goto(p, [l EXCEPT !.pc = "mv_save", !.cur = NoRow]) /\ UNCHANGED resp
          ELSE IF up = {} THEN Finish(p, l.op, Resp("error", 400))
          ELSE Goto(p, [l EXCEPT !.cur = TheOne(up)]) /\ UNCHANGED resp

\* obj.parent = target_folder; obj.save(): every field of the object loaded
\* at the start is written back.
MoveSave(p) ==
    LET l == procs[p]
        row == Relinked("folder", l.obj, l.fid)
    IN /\ l.pc = "mv_save"
       /\ UNCHANGED <<users, zettels, files, nextFolderId, nextZettelId, nextFileId>>
       /\ IF FolderConflict(folders, row) THEN Finish(p, l.op, Resp("conflict", 400)) /\ UNCHANGED folders
          ELSE IF ~FkOk(folders, row.parent) THEN Finish(p, l.op, Resp("error", 400)) /\ UNCHANGED folders
          ELSE folders' = SaveOk(folders, row) /\ Finish(p, l.op, Resp("moved", 200))

NextConc ==
    \/ \E p \in Procs, u \in Users, op \in {"create_zettel", "create_folder"}, fid \in FolderIds \cup {None} :
          CreateStart(p, u, op, fid)
    \/ \E p \in Procs : RootCreate(p)
    \/ \E p \in Procs : Scan(p)
    \/ \E p \in Procs : Insert(p)
    \/ \E p \in Procs, u \in Users, id \in FolderIds : DeleteStart(p, u, id)
    \/ \E p \in Procs : Wipe(p)
    \/ \E p \in Procs : DeleteGet(p)
    \/ \E p \in Procs : DeleteExec(p)
    \/ \E p \in Procs, u \in Users, id \in FolderIds, target \in FolderIds \cup {None} :
          MoveStart(p, u, id, target)
    \/ \E p \in Procs : MoveTarget(p)
    \/ \E p \in Procs : MoveWalk(p)
    \/ \E p \in Procs : MoveSave(p)

SpecConc == InitConc /\ [][NextConc]_vars

\* =========================================================== get_path, stepwise
\* One reader computes paths of folders, zettels and files; a step is one turn
\* of the loop of Folder.get_path.  The reader records at most MaxPath names:
\* no start store without a cycle is deeper than that.
MaxPath == 4

\* The stores the reader starts from.  Five are reached by requests handled one
\* at a time: chains of folders with a zettel or a file at the bottom (after
\* create, rename to "c" and upload), items in the root, and two folders in the
\* root.  The last is what two concurrent move_item requests leave of the
\* fifth when each moves one of the two folders into the other.
PathStarts ==
    { [folders |-> {FolderRow(1, RootName, None, TRUE, "u1"),
                    FolderRow(2, DefaultName(FolderPrefix, 0), 1, FALSE, "u1"),
                    FolderRow(3, DefaultName(FolderPrefix, 0), 2, FALSE, "u1")},
       zettels |-> {ZettelRow(1, DefaultName(ZettelPrefix, 0), 3, "u1", <<>>)},
       files |-> {}],
      [folders |-> {FolderRow(1, RootName, None, TRUE, "u1"),
                    FolderRow(2, DefaultName(FolderPrefix, 0), 1, FALSE, "u1")},
       zettels |-> {ZettelRow(1, DefaultName(ZettelPrefix, 0), 1, "u1", <<>>)},
       files |-> {FileRow(1, <<"c">>, 2, "u1", <<104>>)}],
      [folders |-> {FolderRow(1, RootName, None, TRUE, "u1"),
                    FolderRow(2, <<"c">>, 1, FALSE, "u1"),
                    FolderRow(3, DefaultName(FolderPrefix, 0), 2, FALSE, "u1")},
       zettels |-> {},
       files |-> {FileRow(1, <<"c">>, 3, "u1", <<104>>)}],
      [folders |-> {FolderRow(1, RootName, None, TRUE, "u1"),
                    FolderRow(2, <<"c">>, 1, FALSE, "u1")},
       zettels |-> {ZettelRow(1, <<"c">>, 2, "u1", <<>>)},
       files |-> {FileRow(1, <<"c">>, 1, "u1", <<104>>)}],
      [folders |-> {FolderRow(1, RootName, None, TRUE, "u1"),
                    FolderRow(2, DefaultName(FolderPrefix, 0), 1, FALSE, "u1"),
                    FolderRow(3, DefaultName(FolderPrefix, 1), 1, FALSE, "u1")},
       zettels |-> {}, files |-> {}],
      [folders |-> {FolderRow(1, RootName, None, TRUE, "u1"),
                    FolderRow(2, DefaultName(FolderPrefix, 0), 3, FALSE, "u1"),
                    FolderRow(3, DefaultName(FolderPrefix, 1), 2, FALSE, "u1")},
       zettels |-> {}, files |-> {}] }

\* The reader's locals: current, path_parts, the item's own name (zettel and
\* file), and the path returned.
Reader(pc, cur, parts, name, path) ==
    [pc |-> pc, cur |-> cur, parts |-> parts, name |-> name, path |-> path]

InitPath ==
    /\ users = {"u1"}
    /\ \E s \in PathStarts :
           /\ folders = s.folders /\ zettels = s.zettels /\ files = s.files
           /\ nextFolderId = Cardinality(s.folders) + 1
           /\ nextZettelId = Cardinality(s.zettels) + 1
           /\ nextFileId = Cardinality(s.files) + 1
    /\ resp = NoResp
    /\ procs = <<Reader("idle", None, <<>>, <<>>, <<>>)>>

\* get_path is called on a folder (current = self), or on a zettel or file
\* (self.folder.get_path()).
PathStart(type, id) ==
    /\ procs[1].pc = "idle"
    /\ \E r \in Table(Db, type) :
           /\ r.id = id
           /\ procs' = <<Reader("walk", IF type = "folder" THEN r.id ELSE r.folder, <<>>,
                                IF type = "folder" THEN <<>> ELSE r.name, <<>>)>>
    /\ DbUnchanged /\ UNCHANGED resp

\* while current: path_parts.append(current.name); current = current.parent
PathWalk ==
    LET w == procs[1]
        f == TheOne({g \in folders : g.id = w.cur})
    IN /\ w.pc = "walk" /\ w.cur # None
       /\ procs' = <<[w EXCEPT !.cur = f.parent,
                               !.parts = IF Len(@) < MaxPath THEN Append(@, f.name) ELSE @]>>
       /\ DbUnchanged /\ UNCHANGED resp

\* list.reverse()
RECURSIVE Reverse(_)
Reverse(q) == IF q = <<>> THEN <<>> ELSE Reverse(Tail(q)) \o <<Head(q)>>

\* path_parts.reverse(); return '/'.join(path_parts) + '/'  (+ self.name)
PathReturn ==
    LET w == procs[1]
    IN /\ w.pc = "walk" /\ w.cur = None
       /\ procs' = <<[w EXCEPT !.pc = "done",
                               !.path = JoinSlash(Reverse(w.parts)) \o <<"/">> \o w.name]>>
       /\ resp' = Resp("path", 200)
       /\ DbUnchanged

\* The caller has its path and is free for the next call.
PathAgain ==
    /\ procs[1].pc = "done"
    /\ procs' = <<Reader("idle", None, <<>>, <<>>, <<>>)>>
    /\ DbUnchanged /\ UNCHANGED resp

NextPath ==
    \/ \E type \in RealTypes : \E id \in IdsOf(type) : PathStart(type, id)
    \/ PathWalk
    \/ PathReturn
    \/ PathAgain

\* Every call that has started keeps taking its steps.
SpecPath == InitPath /\ [][NextPath]_vars /\ WF_vars(PathWalk) /\ WF_vars(PathReturn)

\* ===================================================================== claims
AllIds == 1 .. MaxRows

\* The ids met walking parent links upwards from folder fid, fid included; the
\* walk gives up after fuel rows.
RECURSIVE ChainIds(_, _)
ChainIds(fid, fuel) ==
    IF fid = None \/ fuel = 0 \/ ~\E f \in folders : f.id = fid THEN {}
    ELSE {fid} \cup ChainIds(ParentOf(folders, fid), fuel - 1)

Chain(fid) == ChainIds(fid, Cardinality(folders))

\* Walking up from fid ends at a folder without parent and meets no id twice.
RECURSIVE ReachesTop(_, _)
ReachesTop(fid, seen) ==
    IF fid = None THEN TRUE
    ELSE IF fid \in seen \/ ~\E f \in folders : f.id = fid THEN FALSE
    ELSE ReachesTop(ParentOf(folders, fid), seen \cup {fid})

\* The rows of a handler's resulting store are the rows of the current one.
SameStore(d) == d.folders = folders /\ d.zettels = zettels /\ d.files = files

\* C1: with requests handled one at a time, no folder is its own ancestor: the
\* parent links of every live folder lead to a folder without parent and pass
\* no folder twice.
C1_NoFolderCycle == \A f \in folders : ReachesTop(f.id, {})

\* A folder sits below a folder created after it (only a move does that), two
\* levels below the top.
C1_Witness ==
    \E f \in folders, g \in folders :
        /\ f.parent = g.id /\ g.id > f.id /\ g.parent # None
        /\ C1_NoFolderCycle

\* C2: a move of folder a into itself or into a folder below it (a is on the
\* target's ancestor chain) is answered with the cycle error and changes no
\* folder, zettel or file.
C2_MoveIntoDescendantRejected ==
    \A u \in Users : \A a \in AllIds, t \in AllIds :
        ( /\ Lookup(folders, a, u) # {}
          /\ Lookup(folders, t, u) # {}
          /\ a \in Chain(t) )
        => LET out == MoveItemH(Db, u, "folder", a, t)
           IN out.resp.kind = "cycle" /\ SameStore(out.db)

\* A move was just refused as a cycle in a tree that has a folder two levels
\* below another one.
C2_Witness ==
    /\ resp.kind = "cycle"
    /\ \E f \in folders, g \in folders : f.parent = g.id /\ g.parent # None /\ ~g.is_root

\* C4: every user has at most one is_root folder, it has no parent, and
\* get_or_create_root returns it without touching the store; only a user
\* without one gets a new folder {name "root", is_root, no parent}.
C4_OneRootPerUser ==
    \A u \in Users :
        LET roots == {f \in folders : f.author = u /\ f.is_root}
            g == GetUserRoot(Db, u)
        IN /\ Cardinality(roots) <= 1
           /\ \A r \in roots : r.parent = None
           /\ ~g.err
           /\ roots # {} => (g.root \in roots /\ g.db = Db)
           /\ roots = {} => /\ g.root.name = RootName /\ g.root.is_root /\ g.root.parent = None
                            /\ g.root.author = u
                            /\ g.db.folders = folders \cup {g.root}
                            /\ g.root.id \notin {f.id : f \in folders}

\* The editor page was served from a root that replaced a wiped one and has
\* been renamed.
C4_Witness ==
    /\ resp.kind = "page"
    /\ \E f \in folders : f.is_root /\ f.id > 1 /\ f.name # RootName

\* Every character of s is whitespace (the empty name included).
IsBlank(s) == \A i \in 1 .. Len(s) : IsSpace(s[i])

\* Another row of the same kind, author and parent / folder has this name.
NameTaken(type, obj, name) ==
    IF type = "folder"
    THEN \E f \in folders : f.id # obj.id /\ f.author = obj.author /\ f.parent = obj.parent /\ f.name = name
    ELSE \E r \in Table(Db, type) :
             r.id # obj.id /\ r.author = obj.author /\ r.folder = obj.folder /\ r.name = name

\* C7: a rename to a name (as trimmed) that another entity of the same kind
\* has in the same scope is answered with the conflict error, a rename to an
\* empty or whitespace-only name with the validation error, and either leaves
\* every folder, zettel and file as it was.
C7_RenameRefusalsKeepStore ==
    \A u \in Users, type \in RealTypes : \A id \in AllIds, raw \in RenameInputs(type) :
        Lookup(Table(Db, type), id, u) # {} =>
            LET obj == TheOne(Lookup(Table(Db, type), id, u))
                out == UpdateItemNameH(Db, u, type, id, raw)
            IN /\ IsBlank(raw) => (out.resp.kind = "empty_name" /\ SameStore(out.db))
               /\ (~IsBlank(raw) /\ NameTaken(type, obj, Strip(raw)))
                      => (out.resp.kind = "conflict" /\ SameStore(out.db))

\* An empty name was just refused while two files share a folder, where a
\* rename of one to the other's name is a conflict.
C7_Witness ==
    /\ resp.kind = "empty_name"
    /\ \E x \in files, y \in files : x.id # y.id /\ x.folder = y.folder

\* The least n >= 0 whose default name is not in names.
LeastFree(names, prefix) ==
    CHOOSE n \in 0 .. Cardinality(names) :
        /\ DefaultName(prefix, n) \notin names
        /\ \A k \in 0 .. (n - 1) : DefaultName(prefix, k) \in names

\* The folder a create request with folder id fid goes to: the root (the live
\* one, or the one the request creates) or the named folder.
CreateTarget(u, fid) ==
    IF fid # None THEN fid
    ELSE IF \E f \in folders : f.author = u /\ f.is_root
    THEN (CHOOSE f \in folders : f.author = u /\ f.is_root).id
    ELSE nextFolderId

\* C8: create_zettel / create_folder into a folder of the user (or the root)
\* succeeds and adds exactly one item, in that folder, named "<prefix>-<n>"
\* with n the least number whose name no item of that kind has in the folder.
C8_DefaultNameIsLeastFree ==
    \A u \in Users : \A fid \in AllIds \cup {None} :
        (fid = None \/ Lookup(folders, fid, u) # {}) =>
            LET t == CreateTarget(u, fid)
                znames == {z.name : z \in {z \in zettels : z.author = u /\ z.folder = t}}
                fnames == {f.name : f \in {f \in folders : f.author = u /\ f.parent = t}}
                oz == CreateZettelH(Db, u, fid)
                of == CreateFolderH(Db, u, fid)
            IN /\ oz.resp.kind = "created"
               /\ \E z \in oz.db.zettels :
                      /\ z \notin zettels /\ oz.db.zettels \ {z} = zettels
                      /\ z.folder = t /\ z.author = u
                      /\ z.name = DefaultName(ZettelPrefix, LeastFree(znames, ZettelPrefix))
               /\ of.resp.kind = "created"
               /\ \E f \in of.db.folders :
                      /\ f \notin folders /\ f.id = of.db.nextFolderId - 1
                      /\ f.parent = t /\ f.author = u
                      /\ f.name = DefaultName(FolderPrefix, LeastFree(fnames, FolderPrefix))

\* A zettel named new-zettel-0 was just created beside an older zettel named
\* new-zettel-1: the scan filled the gap instead of counting on.
C8_Witness ==
    /\ resp.kind = "created"
    /\ \E z \in zettels, y \in zettels :
        /\ z.folder = y.folder /\ z.id > y.id
        /\ z.name = DefaultName(ZettelPrefix, 0) /\ y.name = DefaultName(ZettelPrefix, 1)

\* C10: a successful delete of a non-root folder F removes F and every folder,
\* zettel and file with F on its ancestor chain, and leaves every other row as
\* it was.
C10_DeleteCascades ==
    \A u \in Users : \A id \in AllIds :
        LET out == DeleteItemH(Db, u, "folder", id)
        IN ( /\ \E f \in Lookup(folders, id, u) : ~f.is_root
             /\ out.resp.kind = "deleted" )
           => /\ out.db.folders = {f \in folders : id \notin Chain(f.id)}
              /\ out.db.zettels = {z \in zettels : id \notin Chain(z.folder)}
              /\ out.db.files = {x \in files : id \notin Chain(x.folder)}

\* A delete was just answered: of the three folders and the zettel ever
\* created only one folder, the root, is left.
C10_Witness ==
    /\ resp.kind = "deleted"
    /\ Cardinality(folders) = 1 /\ nextFolderId = 4
    /\ zettels = {} /\ nextZettelId = 2

\* ------------------------------------------------ requests handled concurrently
\* C3: while move_item requests of one user run concurrently, their ancestor
\* checks and parent writes interleaved in any order, the tree has no cycle:
\* no folder is among the ancestors of its own parent.
C3_ConcurrentMovesKeepTree ==
    \A f \in folders : f.id \notin ChainIds(f.parent, Cardinality(folders))

\* C5: when requests of a user without root folder call get_user_root
\* concurrently, the user never has two is_root folders.
C5_RaceYieldsOneRoot ==
    \A u \in Users : Cardinality({f \in folders : f.author = u /\ f.is_root}) <= 1

\* The rows x and y of one table are two rows of one author with the same name.
SameName(x, y) == x.id # y.id /\ x.author = y.author /\ x.name = y.name

\* C6: under every interleaving of requests no two folders of one author have
\* the same (parent, name), and no two zettels and no two files of one author
\* have the same (folder, name).
C6_NamesUniqueInScope ==
    /\ \A f \in folders, g \in folders : SameName(f, g) => f.parent # g.parent
    /\ \A x \in zettels, y \in zettels : SameName(x, y) => x.folder # y.folder
    /\ \A x \in files, y \in files : SameName(x, y) => x.folder # y.folder

\* C9: of the create_zettel / create_folder requests that run concurrently on
\* one target folder every one succeeds: none is refused because the name its
\* scan ended on was taken by the time of its insert.
C9_ConcurrentCreatesAllSucceed ==
    \A p \in Procs :
        (procs[p].pc = "done" /\ procs[p].op \in {"create_zettel", "create_folder"})
            => procs[p].res # "conflict"

\* ------------------------------------------------------------------ two users
\* The folders, zettels and files of store d that user u owns.
OwnedBy(d, u) ==
    [folders |-> {f \in d.folders : f.author = u},
     zettels |-> {z \in d.zettels : z.author = u},
     files |-> {x \in d.files : x.author = u}]

NothingOwned == [folders |-> {}, zettels |-> {}, files |-> {}]

\* C11: delete_item on the acting user's root folder, in one request, removes
\* every folder, zettel and file the user owns and leaves the rows of every
\* other user as they were; the tree the editor then builds for the user is a
\* root without children, zettels or files.
C11_RootDeleteWipesUser ==
    \A u \in UsersIso : \A r \in {f \in folders : f.author = u /\ f.is_root} :
        LET out == DeleteItemH(Db, u, "folder", r.id)
            g == GetUserRoot(out.db, u)
            tree == GetFolderTree(g.db, g.root)
        IN /\ out.resp.kind = "deleted_root"
           /\ OwnedBy(out.db, u) = NothingOwned
           /\ \A v \in UsersIso \ {u} : OwnedBy(out.db, v) = OwnedBy(Db, v)
           /\ ~g.err /\ tree.name = RootName
           /\ tree.children = <<>> /\ tree.zettels = <<>> /\ tree.files = <<>>

\* A root was just deleted: its owner, who had a zettel, owns nothing any
\* more, and the other user still has a zettel.
C11_Witness ==
    /\ resp.kind = "deleted_root"
    /\ nextZettelId = 3
    /\ \E u \in users, v \in users :
           /\ u # v /\ OwnedBy(Db, u) = NothingOwned
           /\ OwnedBy(Db, v).zettels # {} /\ OwnedBy(Db, v).folders # {}

\* What every request answers and leaves behind, whatever else it returns.
Out(o) == [db |-> o.db, resp |-> o.resp]

\* The outcomes of the requests of user u that name the entity id of the given
\* kind: reading it, creating in it, renaming, deleting, moving it or moving
\* into it, uploading into it and downloading it.
RequestsNaming(u, type, id) ==
    {Out(DeleteItemH(Db, u, type, id))}
    \cup {Out(UpdateItemNameH(Db, u, type, id, raw)) : raw \in RenameIso}
    \cup {Out(MoveItemH(Db, u, type, id, t)) : t \in AllIds}
    \cup (IF type = "zettel"
          THEN {Out(GetZettelH(Db, u, id))}
                   \cup {Out(UpdateZettelH(Db, u, id, c)) : c \in ContentInputs \ {<<>>}}
          ELSE {})
    \cup (IF type = "folder"
          THEN {Out(CreateZettelH(Db, u, id)), Out(CreateFolderH(Db, u, id)), Out(DownloadH(Db, u, id, {}))}
                   \cup {Out(UploadH(Db, u, id, b.paths, b.blobs)) : b \in UploadIso}
                   \cup {Out(MoveItemH(Db, u, ty, x, id)) :
                             ty \in RealTypes, x \in {r.id : r \in folders \cup zettels \cup files}}
          ELSE {})

\* The outcomes of every request user u can make, with any ids.
AllRequests(u) ==
    UNION {RequestsNaming(u, type, id) : type \in RealTypes, id \in AllIds}
        \cup {Out(EditorH(Db, u)), Out(NetworkH(Db, u)), Out(CreateZettelH(Db, u, None)),
              Out(CreateFolderH(Db, u, None))}
        \cup {Out(UploadH(Db, u, None, b.paths, b.blobs)) : b \in UploadIso}

\* C12: a request of user u that names a folder, zettel or file of another
\* user v (as the item, or as the target folder) fails as not found, and no
\* request of u creates, changes, moves or deletes a row that v owns.
C12_CrossUserRequestsNotFound ==
    \A u \in users, v \in users : u # v =>
        /\ \A type \in RealTypes : \A r \in Table(OwnedBy(Db, v), type) :
               \A o \in RequestsNaming(u, type, r.id) : o.resp.kind = "not_found"
        /\ \A o \in AllRequests(u) : OwnedBy(o.db, v) = OwnedBy(Db, v)

\* A request was just refused as not found while each of the two users owns a
\* folder below the root or a zettel, whose ids the other may name.
C12_Witness ==
    /\ resp.kind = "not_found"
    /\ \E u \in users, v \in users :
           /\ u # v
           /\ OwnedBy(Db, u).zettels # {}
           /\ \E f \in OwnedBy(Db, v).folders : ~f.is_root

\* The store d without the zettels of the users other than u.
WithoutOthersZettels(d, u) == [d EXCEPT !.zettels = {z \in @ : z.author = u}]

\* C13: every edge of the link graph of user u points at the name of a zettel
\* that u owns, and the graph of u (node list and edge list) is the same as in
\* the store without the zettels of the other users.
C13_GraphIgnoresOtherUsers ==
    \A u \in users :
        LET g == NetworkH(Db, u)
            h == NetworkH(WithoutOthersZettels(Db, u), u)
        IN /\ \A i \in 1 .. Len(g.edges) :
                  \E z \in zettels : z.author = u /\ z.name = g.edges[i].target
           /\ g.nodes = h.nodes
           /\ g.edges = h.edges

\* Folder id fid is a live folder of store d that user u owns.
OwnFolder(d, fid, u) == \E f \in d.folders : f.id = fid /\ f.author = u

\* C14: every zettel and every file is in a live folder of its own author,
\* every folder with a parent has a live parent of its own author, and a
\* zettel created without a folder id is put into the root of its author.
C14_ItemsInOwnFolders ==
    /\ \A z \in zettels : OwnFolder(Db, z.folder, z.author)
    /\ \A x \in files : OwnFolder(Db, x.folder, x.author)
    /\ \A f \in folders : f.parent # None => OwnFolder(Db, f.parent, f.author)
    /\ \A u \in users :
           LET out == CreateZettelH(Db, u, None)
           IN \A z \in out.db.zettels \ zettels :
                  \E f \in out.db.folders : f.id = z.folder /\ f.author = u /\ f.is_root

\* A zettel was just moved into a folder below its author's root while
\* another user has a root of their own.
C14_Witness ==
    /\ resp.kind = "moved"
    /\ \E z \in zettels, f \in folders, g \in folders :
           /\ f.id = z.folder /\ ~f.is_root /\ f.author = z.author
           /\ g.author # z.author

\* --------------------------------------------------------- import and export
\* The batch ["n/a.md", "n/s/b.md", "i/c"]: two top-level folders, no wrapper.
TwoTopLevelBatch ==
    [paths |-> << <<"n", "/", "a", ".", "m", "d">>,
                  <<"n", "/", "s", "/", "b", ".", "m", "d">>,
                  <<"i", "/", "c">> >>,
     blobs |-> << <<104>>, <<105>>, <<104>> >>]

\* The folders of user u in store d that are named name and sit in folder fid.
FoldersNamed(d, u, fid, name) ==
    {f \in d.folders : f.author = u /\ f.parent = fid /\ f.name = name}

\* C15: the import of a batch with several top-level segments and no wrapper
\* folder into the user's root succeeds and builds the implied tree: folder n
\* with zettel a, folder n/s with zettel b, folder i with file c.
C15_ImportBuildsImpliedTree ==
    \A u \in users :
        LET out == UploadH(Db, u, None, TwoTopLevelBatch.paths, TwoTopLevelBatch.blobs)
            root == GetUserRoot(out.db, u).root
        IN /\ out.resp.kind = "uploaded"
           /\ \E n \in FoldersNamed(out.db, u, root.id, <<"n">>),
                  i \in FoldersNamed(out.db, u, root.id, <<"i">>) :
                  /\ \E z \in out.db.zettels : z.folder = n.id /\ z.name = <<"a">>
                  /\ \E x \in out.db.files : x.folder = i.id /\ x.name = <<"c">>
                  /\ \E sub \in FoldersNamed(out.db, u, n.id, <<"s">>) :
                         \E z \in out.db.zettels : z.folder = sub.id /\ z.name = <<"b">>

\* The leaf names offered: "c.md", "c.md.h" (the suffix inside the name), "c".
LeafNames == { <<"c", ".", "m", "d">>, <<"c", ".", "m", "d", ".", "h">>, <<"c">> }

\* name ends in sub
EndsWith(name, sub) ==
    Len(sub) <= Len(name) /\ SubSeq(name, Len(name) - Len(sub) + 1, Len(name)) = sub

\* C16: an imported leaf becomes a zettel exactly when its name ends in ".md",
\* named by the file name without that trailing suffix; every other leaf, a
\* name with ".md" inside it included, becomes a file named by the file name.
C16_LeafClassifiedBySuffix ==
    \A u \in users : \A name \in LeafNames :
        LET out == UploadH(Db, u, None, <<RootName \o <<"/">> \o name>>, << <<104>> >>)
            newz == out.db.zettels \ zettels
            newx == out.db.files \ files
        IN out.resp.kind = "uploaded" =>
               IF EndsWith(name, DotMd)
               THEN /\ newx = {}
                    /\ \E z \in newz : newz = {z} /\ z.name = SubSeq(name, 1, Len(name) - Len(DotMd))
               ELSE /\ newz = {}
                    /\ \E x \in newx : newx = {x} /\ x.name = name

\* The batch ["root/c", "root/d"]: two files for the target folder.
TwoLeafBatch ==
    [paths |-> << <<"r", "o", "o", "t", "/", "c">>, <<"r", "o", "o", "t", "/", "d">> >>,
     blobs |-> << <<104>>, <<105>> >>]

\* C17: when one leaf of an import cannot be created (the root already has a
\* file named c), the import goes on: the other leaf, d, is created in the
\* root and the upload reports its result.
C17_ImportSurvivesFailedLeaf ==
    \A u \in users : \A r \in {f \in folders : f.author = u /\ f.is_root} :
        LET out == UploadH(Db, u, None, TwoLeafBatch.paths, TwoLeafBatch.blobs)
        IN (\E x \in files : x.author = u /\ x.folder = r.id /\ x.name = <<"c">>)
               => /\ out.resp.kind = "uploaded"
                  /\ \E x \in out.db.files : x.author = u /\ x.folder = r.id /\ x.name = <<"d">>

\* The folder names from below folder top down to folder fid, each followed by
\* "/" (fid is top or below it).
RECURSIVE RelPath(_, _)
RelPath(top, fid) ==
    IF fid = top THEN <<>>
    ELSE LET f == TheOne({g \in folders : g.id = fid})
         IN RelPath(top, f.parent) \o f.name \o <<"/">>

\* The archive entry the export of folder top owes to a zettel / to a file.
ZettelEntry(top, z) == ZipEntry(RelPath(top, z.folder) \o z.name \o DotMd, Encode(z.content))
FileEntry(top, x) == ZipEntry(RelPath(top, x.folder) \o x.name, x.blob)

\* C18: the export of a folder F of the user writes one entry for every zettel
\* ("p/n.md" with its content) and every file ("p/n" with its bytes) in the
\* subtree of F, p being the folder names from below F, and nothing else: each
\* entry occurs as often as there are items it is owed to.
C18_ExportWritesSubtree ==
    \A u \in users : \A top \in {f \in folders : f.author = u} :
        LET zip == DownloadH(Db, u, top.id, {}).zip
            zs == {z \in zettels : top.id \in Chain(z.folder)}
            xs == {x \in files : top.id \in Chain(x.folder)}
            owed == {ZettelEntry(top.id, z) : z \in zs} \cup {FileEntry(top.id, x) : x \in xs}
        IN /\ Len(zip) = Cardinality(zs) + Cardinality(xs)
           /\ \A i \in 1 .. Len(zip) : zip[i] \in owed
           /\ \A e \in owed :
                  Cardinality({i \in 1 .. Len(zip) : zip[i] = e})
                      = Cardinality({z \in zs : ZettelEntry(top.id, z) = e})
                            + Cardinality({x \in xs : FileEntry(top.id, x) = e})

\* An archive was just served while a zettel sits in a folder below the root
\* and the store has a file.
C18_Witness ==
    /\ resp.kind = "archive"
    /\ files # {}
    /\ \E z \in zettels, f \in folders : f.id = z.folder /\ ~f.is_root

\* The subtree of folder fid in store d, without ids: the child folders by
\* name with their subtrees, the zettels by name and content, the files by
\* name and bytes.
RECURSIVE Shape(_, _)
Shape(d, fid) ==
    [folders |-> {[name |-> f.name, sub |-> Shape(d, f.id)] : f \in {g \in d.folders : g.parent = fid}},
     zettels |-> {[name |-> z.name, content |-> z.content] : z \in {y \in d.zettels : y.folder = fid}},
     files |-> {[name |-> x.name, blob |-> x.blob] : x \in {y \in d.files : y.folder = fid}}]

EmptyShape == [folders |-> {}, zettels |-> {}, files |-> {}]

\* C19: exporting a folder A of the user and importing the archive's entries
\* (path, bytes) into an empty folder A2 outside A gives A2 the subtree of A:
\* the same folder names at every level, zettels with the same names and
\* contents, files with the same names and bytes.
C19_ExportImportRoundTrip ==
    \A u \in users : \A a \in {f \in folders : f.author = u}, a2 \in {f \in folders : f.author = u} :
        (a.id \notin Chain(a2.id) /\ Shape(Db, a2.id) = EmptyShape) =>
            LET zip == DownloadH(Db, u, a.id, {}).zip
                out == UploadH(Db, u, a2.id, [i \in 1 .. Len(zip) |-> zip[i].path],
                               [i \in 1 .. Len(zip) |-> zip[i].data])
            IN Shape(out.db, a2.id) = Shape(Db, a.id)

\* ------------------------------------------------------------------- get_path
\* C20: get_path on a folder, zettel or file terminates in every store, a
\* store with a cycle of parent links included: a walk that has started ends.
C20_GetPathTerminates == (procs[1].pc = "walk") ~> (procs[1].pc = "done")

\* The archive entry the export of folder top owes to a file when the blobs of
\* the files bad cannot be read: the placeholder text at the file's path.
FileEntryOr(top, x, bad) ==
    IF x.id \in bad THEN ZipEntry(RelPath(top, x.folder) \o x.name, Encode(PlaceholderText))
    ELSE FileEntry(top, x)

\* C21: when reading the blobs of some files fails during the export of a
\* folder of the user, the export still answers with the archive: each such
\* file has its entry at its normal path with the placeholder error text, and
\* every zettel and every other file of the subtree, sub-folders included, has
\* its entry as in an export without failure, each as often as it is owed.
C21_ExportSurvivesUnreadableFile ==
    \A u \in users : \A top \in {f \in folders : f.author = u} :
        \A bad \in SUBSET {x.id : x \in files} :
            LET out == DownloadH(Db, u, top.id, bad)
                zip == out.zip
                zs == {z \in zettels : top.id \in Chain(z.folder)}
                xs == {x \in files : top.id \in Chain(x.folder)}
                owed == {ZettelEntry(top.id, z) : z \in zs} \cup {FileEntryOr(top.id, x, bad) : x \in xs}
            IN /\ out.resp = Resp("archive", 200)
               /\ SameStore(out.db)
               /\ Len(zip) = Cardinality(zs) + Cardinality(xs)
               /\ \A i \in 1 .. Len(zip) : zip[i] \in owed
               /\ \A e \in owed :
                      Cardinality({i \in 1 .. Len(zip) : zip[i] = e})
                          = Cardinality({z \in zs : ZettelEntry(top.id, z) = e})
                                + Cardinality({x \in xs : FileEntryOr(top.id, x, bad) = e})

\* An archive was just served while the root's subtree has a zettel and, in a
\* folder below the root, a file: with that file unreadable the archive of the
\* root has the placeholder at the file's path next to the zettel's entry.
C21_Witness ==
    /\ resp.kind = "archive"
    /\ \E r \in folders, x \in files, z \in zettels :
           /\ r.is_root /\ x.folder # r.id /\ x.author = r.author /\ z.author = r.author
           /\ LET zip == DownloadH(Db, r.author, r.id, {x.id}).zip
              IN /\ \E i \in 1 .. Len(zip) :
                        zip[i] = ZipEntry(RelPath(r.id, x.folder) \o x.name, Encode(PlaceholderText))
                 /\ \E i \in 1 .. Len(zip) : zip[i] = ZettelEntry(r.id, z)

\* C22: a successful move_item changes one row in one way: the moved folder's
\* parent, or the moved zettel's or file's folder, becomes the target. The
\* row's other fields (name, content or blob, author), every other row of the
\* three tables (the moved folder's descendants among them) and the ids given
\* out are as before.
C22_MoveChangesOnlyLink ==
    \A u \in users, type \in RealTypes : \A id \in IdsOf(type), target \in FolderIds :
        LET out == MoveItemH(Db, u, type, id, target)
            old == TheOne({r \in Table(Db, type) : r.id = id})
            new == IF type = "folder" THEN [old EXCEPT !.parent = target]
                   ELSE [old EXCEPT !.folder = target]
        IN out.resp.kind = "moved" =>
               /\ Table(out.db, type) = (Table(Db, type) \ {old}) \cup {new}
               /\ \A other \in RealTypes \ {type} : Table(out.db, other) = Table(Db, other)
               /\ out.db.nextFolderId = nextFolderId
               /\ out.db.nextZettelId = nextZettelId
               /\ out.db.nextFileId = nextFileId

\* A move just succeeded and a folder that holds a zettel, a file or a folder
\* sits in a folder below the root, to which a further move may take it back.
C22_Witness ==
    /\ resp.kind = "moved"
    /\ \E f \in folders, p \in folders :
           /\ f.parent = p.id /\ ~p.is_root
           /\ \E r \in folders \cup zettels \cup files :
                  IF r \in folders THEN r.parent = f.id ELSE r.folder = f.id
           /\ MoveItemH(Db, f.author, "folder", f.id, p.parent).resp.kind = "moved"

\* str.lower() over the letters offered
LowerChr(c) == IF c = "C" THEN "c" ELSE c

\* The normal form of a name: trimmed, lowercased, a trailing ".md" stripped.
Normalised(n) ==
    LET t == Strip(n)
        l == [i \in 1 .. Len(t) |-> LowerChr(t[i])]
    IN IF EndsWith(l, DotMd) THEN SubSeq(l, 1, Len(l) - Len(DotMd)) ELSE l

\* The names given both to rename and to the import of a zettel.
NormInputs == { <<"c", ".", "m", "d">>, <<"C", ".", "m", "d">> }

\* C23: the same name given to a rename of a zettel of the user and to the
\* import of a zettel (the single leaf "root/<name>") is stored in the same
\* normal form on both paths: trimmed, lowercased, the trailing extension
\* stripped.
C23_NamesNormalisedAlike ==
    \A u \in users : \A z \in {y \in zettels : y.author = u} : \A n \in NormInputs :
        LET ren == UpdateItemNameH(Db, u, "zettel", z.id, n)
            imp == UploadH(Db, u, None, << RootName \o <<"/">> \o n >>, << <<104>> >>)
            renamed == {y.name : y \in {x \in ren.db.zettels : x.id = z.id}}
            imported == {y.name : y \in {x \in imp.db.zettels : x.id = nextZettelId}}
        IN (ren.resp.kind = "renamed" /\ imp.resp.kind = "uploaded") =>
               /\ renamed = {Normalised(n)}
               /\ imported = {Normalised(n)}

\* The ids of the rows of a table that a get_folder_tree result t lists, in
\* the order of the listing: t's own entry, then those of its children.
RECURSIVE Listed(_, _)
RECURSIVE ListedBelow(_, _, _)
ListedBelow(kids, k, type) ==
    IF k > Len(kids) THEN <<>>
    ELSE Listed(kids[k], type) \o ListedBelow(kids, k + 1, type)

Listed(t, type) ==
    (IF type = "folder" THEN <<t.id>>
     ELSE IF type = "zettel" THEN [i \in 1 .. Len(t.zettels) |-> t.zettels[i].id]
     ELSE [i \in 1 .. Len(t.files) |-> t.files[i].id])
        \o ListedBelow(t.children, 1, type)

\* C24: in every state reachable by sequences and interleavings of requests,
\* a user who has rows has a root folder that get_user_root returns, and the
\* tree of that root lists every folder, zettel and file of the user exactly
\* once: none is detached from the root.
C24_AllItemsUnderRoot ==
    \A u \in Users :
        LET mine == OwnedBy(Db, u)
            g == GetUserRoot(Db, u)
        IN mine.folders \cup mine.zettels \cup mine.files # {} =>
               /\ ~g.err
               /\ \A type \in RealTypes : \A r \in Table(mine, type) :
                      LET ids == Listed(GetFolderTree(g.db, g.root), type)
                      IN Cardinality({i \in 1 .. Len(ids) : ids[i] = r.id}) = 1

\* C25: the entries that the export of a folder of the user writes have
\* pairwise distinct paths: no two items of the subtree, a zettel named n and
\* a file named "n.md" of one folder included, share an entry path.
C25_ExportPathsDistinct ==
    \A u \in users : \A top \in {f \in folders : f.author = u} :
        LET zip == DownloadH(Db, u, top.id, {}).zip
        IN \A i \in 1 .. Len(zip), j \in 1 .. Len(zip) : zip[i].path = zip[j].path => i = j


====
